---- MODULE Spec2Model ----
(***************************************************************************)
(* Model of the adrift relay server (src/server/src/server.ts):            *)
(* class AdriftServer multiplexes HTTP exchanges and WebSocket bridges     *)
(* over one binary channel, keyed by a 16-bit sequence id.                 *)
(*                                                                         *)
(* One action per handler or continuation of the code.  JavaScript runs    *)
(* the synchronous part of a handler and the promise continuations that    *)
(* are already resolved without interleaving, so an action covers the code *)
(* between two real suspension points (await bareFetch, the next body      *)
(* chunk of `for await`, a socket event).                                  *)
(***************************************************************************)
EXTENDS Integers, Sequences, FiniteSets, TLC

(* ------------------------------ bounds -------------------------------- *)
\* inbound frames handed to onMsg over the life of the channel
MaxIn == 2
\* chunks of a real response body
MaxChunks == 2
\* message events delivered by one external socket
MaxMsgs == 1
\* frames passed to send over the life of the channel
MaxOut == 3
\* bytes of the payload of a frame handed to an encoder on its own
MaxPayload == 1

(* --------------------------- protocol codes --------------------------- *)
\* C2SRequestTypes (package "protocol")
HTTPRequest == 0
WSOpen == 1
WSClose == 2
WSSendText == 3
WSSendBinary == 4
\* an operation code the switch of onMsg has no case for
OpUnknown == 9
\* S2CRequestTypes (package "protocol")
HTTPResponseStart == 0
HTTPResponseChunk == 1
HTTPResponseEnd == 2
S2CWSOpen == 3
S2CWSClose == 4
WSDataText == 5
WSDataBinary == 6

None == [t |-> "undefined"]

(* ------------------------------ inputs -------------------------------- *)
\* sequence ids the peer uses (two bytes, big-endian, on the wire)
SeqIds == {7, 263}

\* payload documents: the bytes after the 3-byte header
\*  "REQ"    a JSON object whose remote/url is a valid URL
\*  "BADURL" a JSON object whose remote/url is not a URL
\*  "null"   the JSON document null
\*  "{"      not JSON
\*  "hi"     text data (not JSON)
\*  ""       no payload
Header(seq, op) == << (seq \div 256) % 256, seq % 256, op % 256 >>

Msg(seq, op, p) == [hdr |-> Header(seq, op), payload |-> p]

ShortMsgs == { [hdr |-> h, payload |-> ""] : h \in { <<>>, <<0, 7>> } }

HTTPMsgs ==
  { Msg(263, HTTPRequest, "REQ") } \cup { Msg(7, HTTPRequest, p) : p \in {"BADURL", "null", "{"} }

WSOpenMsgs == { Msg(7, WSOpen, p) : p \in {"REQ", "{"} }

WSDataMsgs == { Msg(s, WSSendText, "hi") : s \in SeqIds } \cup { Msg(7, WSSendBinary, "hi") }

WSCloseMsgs == { Msg(7, WSClose, "") }

OtherMsgs == { Msg(7, OpUnknown, "") }

Msgs == ShortMsgs \cup HTTPMsgs \cup WSOpenMsgs \cup WSDataMsgs \cup WSCloseMsgs \cup OtherMsgs

\* what bareFetch can resolve with: statusCode (0: absent)
RealStatuses == {200}
\* status of a BareError raised by bareFetch
BareStatuses == {403}

\* chunk i of a real body is the one-byte buffer <<i>>
BufChunk(i) == [t |-> "buf", b |-> <<i>>]

RealBody(n) == [i \in 1..n |-> BufChunk(i)]

\* message events of an external socket: the node "ws" shape (a buffer and
\* an isBinary flag) and the web shape (an event whose data is a string or
\* an ArrayBuffer; binaryType is "arraybuffer", so never a Blob)
MsgEvents ==
  { [ev |-> "message", shape |-> "node", isBinary |-> b] : b \in BOOLEAN }
    \cup { [ev |-> "message", shape |-> "web", data |-> d] : d \in {"string", "arraybuffer"} }

CloseEvents == { [ev |-> "close", code |-> 1006, reason |-> "gone", wasClean |-> FALSE] }

(* ------------------------------- state -------------------------------- *)
VARIABLES
  tasks,      \* HTTP exchanges: the running onMsg calls of case HTTPRequest
  listeners,  \* this.events: the "close" listeners, by exchange
  aborted,    \* exchanges whose AbortController was aborted
  sockets,    \* this.sockets: sequence id -> socket
  ws,         \* the external WebSocket objects ever constructed
  out,        \* frames passed to this.send, in order
  closed,     \* onClose() was called
  nIn,        \* number of onMsg calls so far
  last,       \* the last inbound call and how it returned
  codec       \* one frame on its way through an encoder and parseMsgInit

vars == << tasks, listeners, aborted, sockets, ws, out, closed, nIn, last, codec >>

\* everything but the record of the last call
prog == << tasks, listeners, aborted, sockets, ws, out, closed >>

(* ------------------------------ codec --------------------------------- *)
\* DataView.getUint16(0) / getUint8(2) throw RangeError on a short buffer
parseMsgInit(hdr) ==
  IF Len(hdr) < 3 THEN None
  ELSE [t |-> "init", cursor |-> 3, seq |-> hdr[1] * 256 + hdr[2], op |-> hdr[3]]

JSONParses(p) == p \in {"REQ", "BADURL", "null"}

JSONValue(p) ==
  IF p = "null" THEN [t |-> "null"]
  ELSE [t |-> "object", url |-> IF p = "REQ" THEN "valid" ELSE "invalid"]

tryParseJSONPayload(p) == IF JSONParses(p) THEN JSONValue(p) ELSE None

\* JavaScript truthiness of a parsed payload
Truthy(v) == v # None /\ v.t # "null"

\* new Uint8Array(chunk): a buffer is copied; a string is converted to a
\* number for the array length, and a JSON object text converts to NaN,
\* which gives length 0
Uint8ArrayOf(chunk) == IF chunk.t = "buf" THEN chunk.b ELSE <<>>

\* variant: only the low byte of the sequence id is written
Frame_LowByte(seq, op, payload, src) ==
  [hdr |-> Header(seq % 256, op), payload |-> payload, src |-> src]

Frame(seq, op, payload, src) ==
  [hdr |-> Header(seq, op), payload |-> payload, src |-> src]

\* the bound on the frames sent, as a guard of every sending step
CanSend == Len(out) < MaxOut

_sendJSONRes(seq, op, payload, src) == Append(out, Frame(seq, op, [json |-> payload], src))

_sendSimpleRes(seq, op, src) == Append(out, Frame(seq, op, <<>>, src))

sendHTTPResponseStart(seq, payload, src) == _sendJSONRes(seq, HTTPResponseStart, payload, src)

sendHTTPResponseChunk(seq, chunk, src) == Append(out, Frame(seq, HTTPResponseChunk, chunk, src))

sendHTTPResponseEnd(seq, src) == _sendSimpleRes(seq, HTTPResponseEnd, src)

(* -------------------------- HTTP exchange ----------------------------- *)
\* variant: the error response carries the status but no body stream content
bareErrorToResponse_NoBody(status, body) ==
  [payload |-> [status |-> status], body |-> <<>>]

\* Readable.from(string) is a stream of exactly one chunk, the string
bareErrorToResponse(status, body) ==
  [payload |-> [status |-> status], body |-> << [t |-> "str", s |-> body] >>]

\* the catch block of onMsg: anything that is not a BareError becomes
\* BareError(500, {code: "UNKNOWN", ...})
onMsgCatch == bareErrorToResponse(500, "{code:UNKNOWN}")

HTTPSrc(e) == [k |-> "http", id |-> e]

\* fetched: what bareFetch did, as the collaborator produced it
\* body: the part of resp.body the for-await loop has not read yet
NewTask(seq, pc, fetched, body) ==
  [seq |-> seq, pc |-> pc, fetched |-> fetched, body |-> body]

Pending == [kind |-> "pending"]

\* lines 230-231: const {payload, body} = resp; sendHTTPResponseStart
StartStreaming(e, seq, fetched, resp) ==
  /\ CanSend
  /\ tasks' = [i \in (DOMAIN tasks) \cup {e} |->
                 IF i = e THEN NewTask(seq, "stream", fetched, resp.body) ELSE tasks[i]]
  /\ out' = sendHTTPResponseStart(seq, resp.payload, HTTPSrc(e))

Init ==
  /\ tasks = <<>>
  /\ listeners = {}
  /\ aborted = {}
  /\ sockets = <<>>
  /\ ws = <<>>
  /\ out = <<>>
  /\ closed = FALSE
  /\ nIn = 0
  /\ last = [call |-> "init"]
  /\ codec = [pc |-> "idle"]

Returned(m) == [call |-> "onMsg", m |-> m, fault |-> FALSE]
Threw(m) == [call |-> "onMsg", m |-> m, fault |-> TRUE]
Internal == [call |-> "internal"]

\* variant: the channel hands over the next frame only when no exchange is
\* suspended (the caller awaits onMsg)
Receive_Serial ==
  /\ nIn < MaxIn
  /\ \A e \in DOMAIN tasks : tasks[e].pc \notin {"fetch", "stream"}
  /\ nIn' = nIn + 1
  /\ UNCHANGED codec

\* one more inbound frame is handed to onMsg
Receive == nIn < MaxIn /\ nIn' = nIn + 1 /\ UNCHANGED codec

\* onMsg, line 193: the header does not decode
onMsg_Malformed(m) ==
  /\ Receive
  /\ parseMsgInit(m.hdr) = None
  /\ last' = Returned(m)
  /\ UNCHANGED prog

\* variant: line 202 missing; handleHTTPRequest(undefined) fails inside its
\* try block and is answered with a 500
onMsg_HTTPRequest_NoCheck(m) ==
  LET init == parseMsgInit(m.hdr)
      reqPayload == tryParseJSONPayload(m.payload)
      e == Len(tasks) + 1
  IN /\ Receive
     /\ init # None
     /\ init.op = HTTPRequest
     /\ last' = Returned(m)
     /\ IF Truthy(reqPayload) /\ reqPayload.url = "valid"
        THEN /\ tasks' = Append(tasks, NewTask(init.seq, "fetch", Pending, <<>>))
             /\ listeners' = listeners \cup {e}
             /\ UNCHANGED out
        ELSE /\ StartStreaming(e, init.seq, [kind |-> "fault"], onMsgCatch)
             /\ UNCHANGED listeners
     /\ UNCHANGED << aborted, sockets, ws, closed >>

\* onMsg, case HTTPRequest, up to the await of bareFetch
onMsg_HTTPRequest(m) ==
  LET init == parseMsgInit(m.hdr)
      reqPayload == tryParseJSONPayload(m.payload)
      e == Len(tasks) + 1
  IN /\ Receive
     /\ init # None
     /\ init.op = HTTPRequest
     /\ last' = Returned(m)
     /\ IF ~Truthy(reqPayload)
        THEN UNCHANGED prog
        ELSE /\ IF reqPayload.url = "valid"
                THEN \* the hook is registered, bareFetch is pending
                     /\ tasks' = Append(tasks, NewTask(init.seq, "fetch", Pending, <<>>))
                     /\ listeners' = listeners \cup {e}
                     /\ UNCHANGED out
                ELSE \* new URL(payload.remote) throws inside the try:
                     \* the hook is registered and removed again (line 98)
                     /\ StartStreaming(e, init.seq, [kind |-> "fault"], onMsgCatch)
                     /\ UNCHANGED listeners
             /\ UNCHANGED << aborted, sockets, ws, closed >>

\* spec-modelled collaborator: a fetch whose signal was aborted does not
\* deliver a response
bareFetchMayResolve(e) == e \notin aborted

\* variant: line 102 missing, the hook stays registered while the body is read
handleHTTPRequest_Resolved_KeepsHook(e, statusCode, n) ==
  /\ e \in DOMAIN tasks
  /\ tasks[e].pc = "fetch"
  /\ bareFetchMayResolve(e)
  /\ StartStreaming(e, tasks[e].seq, [kind |-> "real", status |-> statusCode, n |-> n],
        [payload |-> [status |-> IF statusCode = 0 THEN 500 ELSE statusCode],
         body |-> RealBody(n)])
  /\ last' = Internal
  /\ UNCHANGED << nIn, codec >>
  /\ UNCHANGED << listeners, aborted, sockets, ws, closed >>

\* bareFetch resolves: lines 102-113, then 230-231
handleHTTPRequest_Resolved(e, statusCode, n) ==
  /\ e \in DOMAIN tasks
  /\ tasks[e].pc = "fetch"
  /\ bareFetchMayResolve(e)
  /\ listeners' = listeners \ {e}
  /\ StartStreaming(e, tasks[e].seq, [kind |-> "real", status |-> statusCode, n |-> n],
        [payload |-> [status |-> IF statusCode = 0 THEN 500 ELSE statusCode],
         body |-> RealBody(n)])
  /\ last' = Internal
  /\ UNCHANGED << nIn, codec >>
  /\ UNCHANGED << aborted, sockets, ws, closed >>

\* bareFetch rejects with a BareError: lines 95-96 (the hook stays), then 230-231
handleHTTPRequest_BareError(e, status) ==
  /\ e \in DOMAIN tasks
  /\ tasks[e].pc = "fetch"
  /\ StartStreaming(e, tasks[e].seq, [kind |-> "controlled", status |-> status],
                    bareErrorToResponse(status, "{code:FORBIDDEN}"))
  /\ last' = Internal
  /\ UNCHANGED << nIn, codec >>
  /\ UNCHANGED << listeners, aborted, sockets, ws, closed >>

\* variant: onMsg has no catch block, the fault leaves onMsg
handleHTTPRequest_Throws_Rethrown(e) ==
  /\ e \in DOMAIN tasks
  /\ tasks[e].pc = "fetch"
  /\ listeners' = listeners \ {e}
  /\ tasks' = [tasks EXCEPT ![e].pc = "faulted", ![e].fetched = [kind |-> "fault"]]
  /\ last' = Internal
  /\ UNCHANGED << nIn, codec >>
  /\ UNCHANGED << aborted, sockets, ws, out, closed >>

\* bareFetch rejects with anything else: lines 98-99, then 205-231
handleHTTPRequest_Throws(e) ==
  /\ e \in DOMAIN tasks
  /\ tasks[e].pc = "fetch"
  /\ listeners' = listeners \ {e}
  /\ StartStreaming(e, tasks[e].seq, [kind |-> "fault"], onMsgCatch)
  /\ last' = Internal
  /\ UNCHANGED << nIn, codec >>
  /\ UNCHANGED << aborted, sockets, ws, closed >>

\* for await: the body yields its next chunk (lines 232-233)
Body_Chunk(e) ==
  /\ e \in DOMAIN tasks
  /\ tasks[e].pc = "stream"
  /\ tasks[e].body # <<>>
  /\ CanSend
  /\ out' = sendHTTPResponseChunk(tasks[e].seq, Uint8ArrayOf(Head(tasks[e].body)), HTTPSrc(e))
  /\ tasks' = [tasks EXCEPT ![e].body = Tail(@)]
  /\ last' = Internal
  /\ UNCHANGED << nIn, codec >>
  /\ UNCHANGED << listeners, aborted, sockets, ws, closed >>

\* for await: the body ends (line 235)
Body_End(e) ==
  /\ e \in DOMAIN tasks
  /\ tasks[e].pc = "stream"
  /\ tasks[e].body = <<>>
  /\ CanSend
  /\ out' = sendHTTPResponseEnd(tasks[e].seq, HTTPSrc(e))
  /\ tasks' = [tasks EXCEPT ![e].pc = "done"]
  /\ last' = Internal
  /\ UNCHANGED << nIn, codec >>
  /\ UNCHANGED << listeners, aborted, sockets, ws, closed >>

\* for await: reading the network response fails; the rejection leaves
\* onMsg, which has no handler around the loop
Body_Error(e) ==
  /\ e \in DOMAIN tasks
  /\ tasks[e].pc = "stream"
  /\ tasks[e].fetched.kind = "real"
  /\ tasks' = [tasks EXCEPT ![e].pc = "faulted"]
  /\ last' = Internal
  /\ UNCHANGED << nIn, codec >>
  /\ UNCHANGED << listeners, aborted, sockets, ws, out, closed >>

\* variant: the hooks deregister themselves but do not abort
onClose_NoAbort ==
  /\ closed' = TRUE
  /\ listeners' = {}
  /\ last' = [call |-> "onClose"]
  /\ UNCHANGED << nIn, codec >>
  /\ UNCHANGED << tasks, aborted, sockets, ws, out >>

\* variant: onClose also closes every registered socket and clears the registry
onClose_ClosesSockets ==
  /\ closed' = TRUE
  /\ aborted' = aborted \cup listeners
  /\ listeners' = {}
  /\ ws' = [k \in DOMAIN ws |->
              IF \E s \in DOMAIN sockets : sockets[s] = k
              THEN [ws[k] EXCEPT !.readyState = "Closed"] ELSE ws[k]]
  /\ sockets' = <<>>
  /\ last' = [call |-> "onClose"]
  /\ UNCHANGED << nIn, codec >>
  /\ UNCHANGED << tasks, out >>

\* onClose: emit("close") runs every registered hook: abort(), then off()
onClose ==
  /\ closed' = TRUE
  /\ aborted' = aborted \cup listeners
  /\ listeners' = {}
  /\ last' = [call |-> "onClose"]
  /\ UNCHANGED << nIn, codec >>
  /\ UNCHANGED << tasks, sockets, ws, out >>

(* ------------------------- WebSocket bridge --------------------------- *)
WSSrc(k) == [k |-> "ws", id |-> k]

sendWSOpen(seq, src) == _sendSimpleRes(seq, S2CWSOpen, src)

sendWSClose(seq, payload, src) == _sendJSONRes(seq, S2CWSClose, payload, src)

sendWSText(seq, textEncoded, src) == Append(out, Frame(seq, WSDataText, textEncoded, src))

sendWSBinary(seq, msg, src) == Append(out, Frame(seq, WSDataBinary, msg, src))

\* the message carried by a socket event, as the bytes the handler forwards
\* (new TextEncoder().encode(data) for a web text event)
EventBytes(ev) == IF ev.shape = "node" THEN "buffer" ELSE IF ev.data = "string" THEN "utf8" ELSE "buffer"

\* variant: the isBinary flag of the node shape is ignored
onmessage_IgnoresFlag(seq, ev, src) ==
  IF ev.shape = "node" THEN sendWSBinary(seq, EventBytes(ev), src)
  ELSE IF ev.data = "string" THEN sendWSText(seq, EventBytes(ev), src)
       ELSE sendWSBinary(seq, EventBytes(ev), src)

\* ws.onmessage, lines 254-282: which frame a message event becomes
onmessage(seq, ev, src) ==
  IF ev.shape = "node"
  THEN IF ev.isBinary THEN sendWSBinary(seq, EventBytes(ev), src)
       ELSE sendWSText(seq, EventBytes(ev), src)
  ELSE IF ev.data = "string" THEN sendWSText(seq, EventBytes(ev), src)
       ELSE sendWSBinary(seq, EventBytes(ev), src)

\* ws.onclose, lines 247-253
onclose(seq, ev, src) ==
  sendWSClose(seq, [code |-> ev.code, reason |-> ev.reason, wasClean |-> ev.wasClean], src)

\* variant: the socket is constructed and registered whatever the payload
onMsg_WSOpen_NoCheck(m) ==
  LET init == parseMsgInit(m.hdr)
      k == Len(ws) + 1
  IN /\ Receive
     /\ init # None
     /\ init.op = WSOpen
     /\ ws' = Append(ws, [seq |-> init.seq, readyState |-> "Connecting",
                          events |-> <<>>, calls |-> <<>>])
     /\ sockets' = [s \in (DOMAIN sockets) \cup {init.seq} |->
                      IF s = init.seq THEN k ELSE sockets[s]]
     /\ last' = Returned(m)
     /\ UNCHANGED << tasks, listeners, aborted, out, closed >>

\* onMsg, case WSOpen (lines 239-284)
onMsg_WSOpen(m) ==
  LET init == parseMsgInit(m.hdr)
      payload == tryParseJSONPayload(m.payload)
      k == Len(ws) + 1
  IN /\ Receive
     /\ init # None
     /\ init.op = WSOpen
     /\ IF ~Truthy(payload) \/ payload.url # "valid"
        THEN \* payload.url of undefined/null is a TypeError; new WebSocket
             \* of something that is not a URL throws before the assignment
             /\ last' = Threw(m)
             /\ UNCHANGED prog
        ELSE /\ ws' = Append(ws, [seq |-> init.seq, readyState |-> "Connecting",
                                  events |-> <<>>, calls |-> <<>>])
             /\ sockets' = [s \in (DOMAIN sockets) \cup {init.seq} |->
                              IF s = init.seq THEN k ELSE sockets[s]]
             /\ last' = Returned(m)
             /\ UNCHANGED << tasks, listeners, aborted, out, closed >>

\* the external socket connects: ws.onopen, lines 244-246
ws_onopen(k) ==
  /\ k \in DOMAIN ws
  /\ ws[k].readyState = "Connecting"
  /\ CanSend
  /\ ws' = [ws EXCEPT ![k].readyState = "Open", ![k].events = Append(@, [ev |-> "open"])]
  /\ out' = sendWSOpen(ws[k].seq, WSSrc(k))
  /\ last' = Internal
  /\ UNCHANGED << nIn, codec >>
  /\ UNCHANGED << tasks, listeners, aborted, sockets, closed >>

NumMsgs(k) == Cardinality({ i \in DOMAIN ws[k].events : ws[k].events[i].ev = "message" })

\* the external socket delivers a message
ws_onmessage(k, ev) ==
  /\ k \in DOMAIN ws
  /\ ws[k].readyState = "Open"
  /\ NumMsgs(k) < MaxMsgs
  /\ CanSend
  /\ ws' = [ws EXCEPT ![k].events = Append(@, ev)]
  /\ out' = onmessage(ws[k].seq, ev, WSSrc(k))
  /\ last' = Internal
  /\ UNCHANGED << nIn, codec >>
  /\ UNCHANGED << tasks, listeners, aborted, sockets, closed >>

\* the external socket closes; this.sockets keeps its entry
ws_onclose(k, ev) ==
  /\ k \in DOMAIN ws
  /\ ws[k].readyState \in {"Connecting", "Open"}
  /\ CanSend
  /\ ws' = [ws EXCEPT ![k].readyState = "Closed", ![k].events = Append(@, ev)]
  /\ out' = onclose(ws[k].seq, ev, WSSrc(k))
  /\ last' = Internal
  /\ UNCHANGED << nIn, codec >>
  /\ UNCHANGED << tasks, listeners, aborted, sockets, closed >>

\* variant: an unknown sequence id falls back to the latest socket
Lookup_Fallback(seq) == IF seq \in DOMAIN sockets THEN sockets[seq] ELSE Len(ws)

\* this.sockets[seq]
Lookup(seq) == IF seq \in DOMAIN sockets THEN sockets[seq] ELSE 0

\* onMsg, cases WSSendText and WSSendBinary (lines 286-298); send() on a
\* socket that is still connecting throws
onMsg_WSSend(m) ==
  LET init == parseMsgInit(m.hdr)
      socket == Lookup(init.seq)
  IN /\ Receive
     /\ init # None
     /\ init.op \in {WSSendText, WSSendBinary}
     /\ IF socket = 0
        THEN /\ last' = Returned(m)
             /\ UNCHANGED prog
        ELSE /\ ws' = [ws EXCEPT ![socket].calls = Append(@,
                         [call |-> IF init.op = WSSendText THEN "sendText" ELSE "sendBinary",
                          data |-> m.payload])]
             /\ last' = IF ws[socket].readyState = "Connecting" THEN Threw(m) ELSE Returned(m)
             /\ UNCHANGED << tasks, listeners, aborted, sockets, out, closed >>

\* variant: the relay answers a WSClose frame with a WSClose frame of its own
onMsg_WSClose_Answers(m) ==
  LET init == parseMsgInit(m.hdr)
      socket == Lookup(init.seq)
  IN /\ Receive
     /\ init # None
     /\ init.op = WSClose
     /\ last' = Returned(m)
     /\ IF socket = 0
        THEN UNCHANGED prog
        ELSE /\ ws' = [ws EXCEPT ![socket].calls = Append(@, [call |-> "close", data |-> ""])]
             /\ out' = IF CanSend
                       THEN sendWSClose(init.seq, [code |-> 1000, reason |-> "", wasClean |-> TRUE],
                                        WSSrc(socket))
                       ELSE out
             /\ UNCHANGED << tasks, listeners, aborted, sockets, closed >>

\* onMsg, case WSClose (lines 300-305)
onMsg_WSClose(m) ==
  LET init == parseMsgInit(m.hdr)
      socket == Lookup(init.seq)
  IN /\ Receive
     /\ init # None
     /\ init.op = WSClose
     /\ last' = Returned(m)
     /\ IF socket = 0
        THEN UNCHANGED prog
        ELSE /\ ws' = [ws EXCEPT ![socket].calls = Append(@, [call |-> "close", data |-> ""])]
             /\ UNCHANGED << tasks, listeners, aborted, sockets, out, closed >>

\* onMsg, default (lines 307-309)
onMsg_Default(m) ==
  LET init == parseMsgInit(m.hdr)
  IN /\ Receive
     /\ init # None
     /\ init.op \notin {HTTPRequest, WSOpen, WSClose, WSSendText, WSSendBinary}
     /\ last' = Returned(m)
     /\ UNCHANGED prog

onMsg(m) ==
  \/ onMsg_Malformed(m)
  \/ onMsg_HTTPRequest(m)
  \/ onMsg_WSOpen(m)
  \/ onMsg_WSSend(m)
  \/ onMsg_WSClose(m)
  \/ onMsg_Default(m)

Next ==
  \/ \E m \in Msgs : onMsg(m)
  \/ \E e \in 1..MaxIn, sc \in RealStatuses, n \in 0..MaxChunks : handleHTTPRequest_Resolved(e, sc, n)
  \/ \E e \in 1..MaxIn, sc \in BareStatuses : handleHTTPRequest_BareError(e, sc)
  \/ \E e \in 1..MaxIn : handleHTTPRequest_Throws(e)
  \/ \E e \in 1..MaxIn : Body_Chunk(e)
  \/ \E e \in 1..MaxIn : Body_End(e)
  \/ \E e \in 1..MaxIn : Body_Error(e)
  \/ \E k \in 1..MaxIn : ws_onopen(k)
  \/ \E k \in 1..MaxIn, ev \in MsgEvents : ws_onmessage(k, ev)
  \/ \E k \in 1..MaxIn, ev \in CloseEvents : ws_onclose(k, ev)
  \/ onClose

Spec == Init /\ [][Next]_vars

TypeOK == Len(tasks) + Len(ws) <= MaxIn /\ Len(out) <= MaxOut

(* ------------------------- reading the output -------------------------- *)
\* the frames one exchange produced, in the order they were sent
FramesOf(src) == SelectSeq(out, LAMBDA f : f.src = src)

FrameOp(f) == parseMsgInit(f.hdr).op

FrameSeq(f) == parseMsgInit(f.hdr).seq

Ops(F) == [i \in 1..Len(F) |-> FrameOp(F[i])]

OnSeq(F, seq) == \A i \in 1..Len(F) : FrameSeq(F[i]) = seq

\* one HTTPResponseStart, then only HTTPResponseChunk
IsStartChunks(o) ==
  /\ Len(o) >= 1
  /\ o[1] = HTTPResponseStart
  /\ \A i \in 2..Len(o) : o[i] = HTTPResponseChunk

\* one HTTPResponseStart, HTTPResponseChunk frames, one HTTPResponseEnd
IsStartChunksEnd(o) ==
  /\ Len(o) >= 2
  /\ o[1] = HTTPResponseStart
  /\ o[Len(o)] = HTTPResponseEnd
  /\ \A i \in 2..(Len(o) - 1) : o[i] = HTTPResponseChunk

\* the chunk frames of F carry the chunks of a real body of n chunks, in order
ChunksInBodyOrder(F, n) ==
  LET C == SelectSeq(F, LAMBDA f : FrameOp(f) = HTTPResponseChunk)
  IN /\ Len(C) <= n
     /\ \A i \in 1..Len(C) : C[i].payload = <<i>>

\* onMsg has returned or thrown for this exchange
Finished(e) == tasks[e].pc \in {"done", "faulted"}

InFlight(e) == tasks[e].pc \in {"fetch", "stream"}

\* the step is a call of onMsg
IsOnMsgStep == nIn' = nIn + 1 /\ last'.call = "onMsg"

(* --------------------- one frame through the codec --------------------- *)
\* inputs of the encoders: sequence ids around the byte boundaries of a
\* uint16, the operation codes the relay sends and the largest uint8, and
\* payload buffers of up to MaxPayload bytes
CodecSeqs == {0, 7, 255, 256, 263, 65535}

CodecOps ==
  { HTTPResponseStart, HTTPResponseChunk, HTTPResponseEnd, S2CWSOpen, S2CWSClose,
    WSDataText, WSDataBinary, 255 }

CodecBytes == {0, 255}

CodecPayloads == UNION { [1..n -> CodecBytes] : n \in 0..MaxPayload }

CodecInput(seq, op, payload) ==
  [pc |-> "input", seq |-> seq, op |-> op, payload |-> payload,
   via |-> "", buf |-> <<>>, init |-> None, rest |-> <<>>]

\* variant: the sequence id is written low byte first
EncodeBuf_LittleEndian(seq, op, payloadBuffer) ==
  << seq % 256, (seq \div 256) % 256, op % 256 >> \o payloadBuffer

\* the buffer an encoder hands to send: setUint16(0, seq), setUint8(2, op),
\* then the payload bytes from offset 3
EncodeBuf(seq, op, payloadBuffer) == Header(seq, op) \o payloadBuffer

\* msg.slice(cursor)
slice(msg, cursor) == SubSeq(msg, cursor + 1, Len(msg))

CodecInit ==
  /\ tasks = <<>>
  /\ listeners = {}
  /\ aborted = {}
  /\ sockets = <<>>
  /\ ws = <<>>
  /\ out = <<>>
  /\ closed = FALSE
  /\ nIn = 0
  /\ last = [call |-> "init"]
  /\ codec \in { CodecInput(s, o, p) : s \in CodecSeqs, o \in CodecOps, p \in CodecPayloads }

\* via: the encoder that built the buffer
Encoded(via, buf) ==
  /\ codec.pc = "input"
  /\ codec' = [codec EXCEPT !.pc = "encoded", !.via = via, !.buf = buf]
  /\ UNCHANGED << prog, nIn, last >>

\* _sendJSONRes(seq, op, payload); codec.payload is the UTF-8 text of the JSON
Codec_sendJSONRes ==
  /\ codec.op \in 0..255
  /\ Encoded("_sendJSONRes", EncodeBuf(codec.seq, codec.op, codec.payload))

\* _sendSimpleRes(seq, op): a frame without payload
Codec_sendSimpleRes ==
  /\ codec.payload = <<>>
  /\ Encoded("_sendSimpleRes", EncodeBuf(codec.seq, codec.op, <<>>))

Codec_sendHTTPResponseChunk ==
  /\ codec.op = HTTPResponseChunk
  /\ Encoded("sendHTTPResponseChunk", EncodeBuf(codec.seq, HTTPResponseChunk, codec.payload))

Codec_sendWSText ==
  /\ codec.op = WSDataText
  /\ Encoded("sendWSText", EncodeBuf(codec.seq, WSDataText, codec.payload))

Codec_sendWSBinary ==
  /\ codec.op = WSDataBinary
  /\ Encoded("sendWSBinary", EncodeBuf(codec.seq, WSDataBinary, codec.payload))

\* the peer reads the frame as onMsg reads one: parseMsgInit, msg.slice(cursor)
Codec_parseMsgInit ==
  /\ codec.pc = "encoded"
  /\ LET init == parseMsgInit(codec.buf)
     IN codec' = [codec EXCEPT !.pc = "decoded", !.init = init,
                               !.rest = IF init = None THEN <<>> ELSE slice(codec.buf, init.cursor)]
  /\ UNCHANGED << prog, nIn, last >>

CodecNext ==
  \/ Codec_sendJSONRes
  \/ Codec_sendSimpleRes
  \/ Codec_sendHTTPResponseChunk
  \/ Codec_sendWSText
  \/ Codec_sendWSBinary
  \/ Codec_parseMsgInit

CodecSpec == CodecInit /\ [][CodecNext]_vars

(* ------------------------------- claims -------------------------------- *)

\* C1: for every HTTPRequest frame whose payload decodes, the frames of the
\* exchange are sent on its sequence id and are exactly one
\* HTTPResponseStart, then the HTTPResponseChunk frames (one per body chunk,
\* in body order), then exactly one HTTPResponseEnd: nothing before the
\* fetch settles, start-then-chunks while the body is read, and the whole
\* sequence once onMsg is finished with the exchange.
C1_StartChunksEnd ==
  \A e \in DOMAIN tasks :
    LET F == FramesOf(HTTPSrc(e))
    IN /\ OnSeq(F, tasks[e].seq)
       /\ tasks[e].pc = "fetch" => F = <<>>
       /\ tasks[e].pc = "stream" => IsStartChunks(Ops(F))
       /\ Finished(e) => IsStartChunksEnd(Ops(F))
       /\ tasks[e].fetched.kind = "real" =>
            /\ ChunksInBodyOrder(F, tasks[e].fetched.n)
            /\ tasks[e].pc = "done" => Len(F) = tasks[e].fetched.n + 2

\* C2: an exchange that has sent HTTPResponseStart and whose body stream has
\* stopped producing chunks (onMsg is finished with it) has sent
\* HTTPResponseEnd, also when the body stream ended with an error.
C2_EndAfterStart ==
  \A e \in DOMAIN tasks :
    LET F == FramesOf(HTTPSrc(e))
    IN (Finished(e) /\ F # <<>>) => FrameOp(F[Len(F)]) = HTTPResponseEnd

C4_Fault500 ==
  \A e \in DOMAIN tasks :
    tasks[e].fetched.kind = "fault" =>
      LET F == FramesOf(HTTPSrc(e))
      IN /\ tasks[e].pc \in {"stream", "done"}
         /\ F # <<>>
         /\ OnSeq(F, tasks[e].seq)
         /\ FrameOp(F[1]) = HTTPResponseStart
         /\ F[1].payload.json.status = 500
         /\ \A i \in 2..Len(F) : FrameOp(F[i]) # HTTPResponseStart
         /\ tasks[e].pc = "done" => FrameOp(F[Len(F)]) = HTTPResponseEnd

C4_Witness ==
  \E e \in DOMAIN tasks :
    /\ tasks[e].fetched.kind = "fault"
    /\ tasks[e].pc = "done"
    /\ e \notin aborted

\* C5: every HTTP exchange deregisters its cancellation hook when it
\* completes: the hooks registered on "close" are at most the exchanges in
\* flight, belong to exchanges in flight, and there is none when no exchange
\* is in flight.
C5_HooksOfInFlight ==
  /\ Cardinality(listeners) <= Cardinality({ e \in DOMAIN tasks : InFlight(e) })
  /\ \A e \in listeners : InFlight(e)

\* C6: onClose() aborts the fetch of every exchange that is awaiting its
\* response, and an exchange aborted that way never sends a
\* HTTPResponseChunk or HTTPResponseEnd frame made from a network response.
C6_CloseCancelsFetch ==
  /\ [][ (last'.call = "onClose" /\ closed') =>
           \A e \in DOMAIN tasks : tasks[e].pc = "fetch" => e \in aborted' ]_vars
  /\ [](\A e \in aborted :
          tasks[e].fetched.kind = "real" =>
            \A i \in 1..Len(out) :
              out[i].src = HTTPSrc(e) =>
                FrameOp(out[i]) \notin {HTTPResponseChunk, HTTPResponseEnd})

C6_Witness ==
  \E e \in aborted :
    /\ tasks[e].fetched.kind = "fault"
    /\ tasks[e].pc = "done"
    /\ closed

\* C7: an inbound message whose header is shorter than 3 bytes, or an
\* HTTPRequest frame whose payload is not JSON, changes nothing: no frame is
\* sent, no exchange or fetch is started, no hook is registered, the
\* registry and the sockets are as before, and onMsg returns normally.
C7_MalformedDropped ==
  [][ ( /\ IsOnMsgStep
        /\ \/ Len(last'.m.hdr) < 3
           \/ /\ Len(last'.m.hdr) >= 3
              /\ last'.m.hdr[3] = HTTPRequest
              /\ ~JSONParses(last'.m.payload) )
      => (UNCHANGED prog /\ ~last'.fault) ]_vars

C7_Witness ==
  /\ last.call = "onMsg"
  /\ Len(last.m.hdr) >= 3
  /\ last.m.hdr[3] = HTTPRequest
  /\ ~JSONParses(last.m.payload)
  /\ \E e \in DOMAIN tasks : InFlight(e)

\* C8: a WSSendText, WSSendBinary or WSClose frame whose sequence id is not
\* in the registry sends no frame, raises no fault, calls no socket and
\* leaves the registry unchanged.
C8_UnregisteredIgnored ==
  [][ ( /\ IsOnMsgStep
        /\ Len(last'.m.hdr) >= 3
        /\ last'.m.hdr[3] \in {WSSendText, WSSendBinary, WSClose}
        /\ (last'.m.hdr[1] * 256 + last'.m.hdr[2]) \notin DOMAIN sockets )
      => (UNCHANGED prog /\ ~last'.fault) ]_vars

C8_Witness ==
  /\ last.call = "onMsg"
  /\ Len(last.m.hdr) >= 3
  /\ last.m.hdr[3] \in {WSSendText, WSSendBinary, WSClose}
  /\ (last.m.hdr[1] * 256 + last.m.hdr[2]) \notin DOMAIN sockets
  /\ ws # <<>>

\* C9: a WSOpen frame whose payload is not JSON opens no socket, does not
\* register its sequence id and sends no frame.
C9_UndecodableOpenAborts ==
  [][ ( /\ IsOnMsgStep
        /\ Len(last'.m.hdr) >= 3
        /\ last'.m.hdr[3] = WSOpen
        /\ ~JSONParses(last'.m.payload) )
      => UNCHANGED << ws, sockets, out >> ]_vars

C9_Witness ==
  /\ last.call = "onMsg"
  /\ Len(last.m.hdr) >= 3
  /\ last.m.hdr[3] = WSOpen
  /\ ~JSONParses(last.m.payload)
  /\ ws = <<>>
  /\ DOMAIN sockets = {}

\* the frame the bridge owes for one socket event
ExpectedFrame(seq, ev) ==
  CASE ev.ev = "open" -> [hdr |-> Header(seq, S2CWSOpen), payload |-> <<>>]
    [] ev.ev = "close" ->
         [hdr |-> Header(seq, S2CWSClose),
          payload |-> [json |-> [code |-> ev.code, reason |-> ev.reason, wasClean |-> ev.wasClean]]]
    [] ev.ev = "message" ->
         IF (ev.shape = "node" /\ ~ev.isBinary) \/ (ev.shape = "web" /\ ev.data = "string")
         THEN [hdr |-> Header(seq, WSDataText),
               payload |-> IF ev.shape = "web" THEN "utf8" ELSE "buffer"]
         ELSE [hdr |-> Header(seq, WSDataBinary), payload |-> "buffer"]

\* C10: the frames a socket opened on sequence id s has produced are, one
\* per socket event and in the order of the events, WSOpen for open,
\* WSDataText for a text message, WSDataBinary for a binary message and
\* WSClose with the event's code, reason and wasClean for close, all on s.
C10_OneFramePerEvent ==
  \A k \in DOMAIN ws :
    LET F == FramesOf(WSSrc(k))
    IN /\ Len(F) = Len(ws[k].events)
       /\ \A i \in 1..Len(F) :
            LET x == ExpectedFrame(ws[k].seq, ws[k].events[i])
            IN F[i].hdr = x.hdr /\ F[i].payload = x.payload

C10_Witness ==
  \E k \in DOMAIN ws :
    /\ Len(ws[k].events) = 3
    /\ ws[k].events[2].ev = "message"
    /\ ws[k].readyState = "Closed"

\* C11: for every sequence id in 0..65535, operation code in 0..255 and
\* payload, parseMsgInit of the buffer an encoder built gives back the same
\* sequence id and operation code with cursor 3, and the bytes of the buffer
\* from that offset on are the payload.
C11_CodecRoundTrip ==
  /\ codec.pc \in {"input", "encoded", "decoded"} =>
       /\ codec.seq \in 0..65535
       /\ codec.op \in 0..255
  /\ codec.pc \in {"encoded", "decoded"} => Len(codec.buf) = 3 + Len(codec.payload)
  /\ codec.pc = "decoded" =>
       /\ codec.init = [t |-> "init", cursor |-> 3, seq |-> codec.seq, op |-> codec.op]
       /\ codec.rest = codec.payload

C11_Witness ==
  /\ codec.pc = "decoded"
  /\ codec.seq = 65535
  /\ codec.op = 255
  /\ codec.payload # <<>>

\* C12: the cancellation signal fires once per channel: an onClose() call
\* made after the first one aborts no fetch and changes nothing (hooks,
\* exchanges, registry, sockets and frames sent are as before).
C12_SecondCloseNoEffect ==
  [][ (closed /\ last'.call = "onClose") => UNCHANGED prog ]_vars

\* C13: every failure is contained in its exchange: no call of onMsg ends
\* with a fault, neither in its synchronous part (whatever the frame) nor
\* later while it reads the response body.
C13_NoFaultLeavesOnMsg ==
  /\ last.call = "onMsg" => ~last.fault
  /\ \A e \in DOMAIN tasks : tasks[e].pc # "faulted"

\* C14: a sequence id is in the registry exactly while its socket lives: it
\* is registered when the WSOpen frame is handled and removed by the close
\* event, so no registered sequence id maps to a socket that is Closed.
C14_NoClosedSocketRegistered ==
  \A s \in DOMAIN sockets : ws[sockets[s]].readyState # "Closed"

\* C15: each sequence id has at most one live socket: every socket that is
\* Connecting or Open is the registry entry of its sequence id, also after a
\* WSOpen frame on a sequence id that is already registered.
C15_LiveSocketIsRegistered ==
  \A k \in DOMAIN ws :
    ws[k].readyState \in {"Connecting", "Open"} =>
      /\ ws[k].seq \in DOMAIN sockets
      /\ sockets[ws[k].seq] = k

\* C16: onClose() leaves every WebSocket bridge untouched: the step changes
\* neither the registry nor any socket nor the frames sent (no WSClose frame
\* is emitted for it), and after the channel closed every socket event is
\* still relayed as its frame.
C16_CloseLeavesBridges ==
  /\ [][ last'.call = "onClose" => UNCHANGED << sockets, ws, out >> ]_vars
  /\ [][ closed =>
           \A k \in DOMAIN ws :
             Len(ws'[k].events) = Len(ws[k].events) + 1 =>
               LET x == ExpectedFrame(ws[k].seq, ws'[k].events[Len(ws'[k].events)])
               IN /\ Len(out') = Len(out) + 1
                  /\ out'[Len(out')].hdr = x.hdr
                  /\ out'[Len(out')].payload = x.payload
                  /\ out'[Len(out')].src = WSSrc(k) ]_vars

\* exchange e was aborted by onClose() while its fetch was pending, so its
\* start frame was sent after the channel closed; a socket frame follows it
C16_Witness ==
  \E e \in aborted, i \in DOMAIN out, j \in DOMAIN out :
    /\ tasks[e].fetched.kind = "fault"
    /\ out[i].src = HTTPSrc(e)
    /\ i < j
    /\ out[j].src.k = "ws"
    /\ DOMAIN sockets # {}

\* C17: a stalled exchange blocks only itself: while an HTTP exchange is
\* suspended at its fetch or at its next body chunk, every inbound frame is
\* still dispatched, every other exchange that is reading its body can send
\* its next frame, and every socket can deliver its events (each as far as
\* the bounds on inbound and sent frames allow).
C17_StalledBlocksOnlyItself ==
  \A e \in DOMAIN tasks :
    InFlight(e) =>
      /\ (nIn < MaxIn /\ CanSend) => \A m \in Msgs : ENABLED onMsg(m)
      /\ \A e2 \in (DOMAIN tasks) \ {e} :
           (tasks[e2].pc = "stream" /\ CanSend) =>
             ENABLED (Body_Chunk(e2) \/ Body_End(e2))
      /\ \A k \in DOMAIN ws :
           (ws[k].readyState = "Connecting" /\ CanSend) => ENABLED ws_onopen(k)

\* the first exchange still awaits its fetch and has sent nothing, while an
\* exchange on another sequence id that arrived later has run to its end
C17_Witness ==
  /\ Len(tasks) >= 2
  /\ tasks[1].pc = "fetch"
  /\ FramesOf(HTTPSrc(1)) = <<>>
  /\ tasks[2].pc = "done"
  /\ tasks[2].seq # tasks[1].seq
  /\ FrameOp(out[Len(out)]) = HTTPResponseEnd

\* the socket operation a frame of the peer asks for
ExpectedCall(m) ==
  CASE m.hdr[3] = WSSendText -> [call |-> "sendText", data |-> m.payload]
    [] m.hdr[3] = WSSendBinary -> [call |-> "sendBinary", data |-> m.payload]
    [] m.hdr[3] = WSClose -> [call |-> "close", data |-> ""]

C19_FramesOnOwnSeq ==
  \A i \in DOMAIN out :
    LET f == out[i]
    IN /\ Len(f.hdr) = 3
       /\ IF f.src.k = "http"
          THEN /\ f.src.id \in DOMAIN tasks
               /\ FrameSeq(f) = tasks[f.src.id].seq
               /\ FrameOp(f) \in {HTTPResponseStart, HTTPResponseChunk, HTTPResponseEnd}
          ELSE /\ f.src.id \in DOMAIN ws
               /\ FrameSeq(f) = ws[f.src.id].seq
               /\ FrameOp(f) \in {S2CWSOpen, S2CWSClose, WSDataText, WSDataBinary}
       /\ FrameSeq(f) \in { tasks[e].seq : e \in DOMAIN tasks } \cup { ws[k].seq : k \in DOMAIN ws }

\* frames of an HTTP exchange on 263 and of a socket on 7, interleaved
C19_Witness ==
  \E i \in DOMAIN out, j \in DOMAIN out, l \in DOMAIN out :
    /\ i < j /\ j < l
    /\ FrameSeq(out[i]) = 263 /\ out[i].src.k = "http"
    /\ FrameSeq(out[j]) = 7 /\ out[j].src.k = "ws"
    /\ FrameSeq(out[l]) = 263 /\ out[l].src = out[i].src

====
